---- MODULE Spec2Model ----
(***************************************************************************)
(* Model of the deduplication-and-dispatch pipeline of ArxivAlertBot       *)
(* (src/arxiv_alert_bot.py): the sent_papers ledger, filter_papers,        *)
(* send_notifications with its per-channel retry loop, and run.            *)
(*                                                                         *)
(* Strings are sequences of one-character strings, so that lower(), the    *)
(* substring test, split('/') and ','.join() are computed, not assumed.    *)
(***************************************************************************)
EXTENDS Integers, Sequences, FiniteSets, TLC

(* ---------------------------------------------------------------- bounds *)
MaxRuns == 2
MaxLen == 2
MaxAttempts == 1

(* ------------------------------------------------------ program constants *)
DefaultMaxAttempts == 3

(* ------------------------------------------------------- string helpers *)
\* str.lower() on the characters the model uses
Lower(c) ==
    IF c = "A" THEN "a" ELSE IF c = "B" THEN "b" ELSE c

LowerStr(s) == [k \in 1..Len(s) |-> Lower(s[k])]

\* Python's `needle in hay` for strings: needle occurs as a contiguous run
Contains(hay, needle) ==
    \E start \in 0..(Len(hay) - Len(needle)) :
        \A k \in 1..Len(needle) : hay[start + k] = needle[k]

\* entry_id.split('/')[-1]: what follows the last '/', the whole string if none
PaperId(entry_id) ==
    LET slashes == {k \in 1..Len(entry_id) : entry_id[k] = "/"}
        last == IF slashes = {} THEN 0
                ELSE CHOOSE k \in slashes : \A j \in slashes : j <= k
    IN  SubSeq(entry_id, last + 1, Len(entry_id))

\* ','.join(categories)
RECURSIVE Join(_)
Join(categories) ==
    IF categories = <<>> THEN <<>>
    ELSE IF Len(categories) = 1 THEN <<categories[1]>>
    ELSE <<categories[1], ",">> \o Join(Tail(categories))

(* ------------------------------------------------------------ the inputs *)
\* Candidate records the search collaborator can return.  PaperOld is an
\* old-style identifier (abs/cs/1) whose last path segment equals Paper1's.
Paper1 == [entry_id |-> <<"abs", "/", "1">>, title |-> <<"A", "b">>,
           summary |-> <<"b", "a">>, categories |-> <<"cs.AI">>]
PaperOld == [entry_id |-> <<"abs", "/", "cs", "/", "1">>, title |-> <<"b">>,
             summary |-> <<"B">>, categories |-> <<"cs.AI", "cs.LG">>]
Paper2 == [entry_id |-> <<"abs", "/", "2">>, title |-> <<"B", "a">>,
           summary |-> <<"a">>, categories |-> <<"cs.LG">>]

Results == {Paper1, PaperOld, Paper2}

\* A field of a record that is missing: Python's None
None == <<"None">>

\* A malformed record: no title and no category list
PaperBad == [entry_id |-> <<"abs", "/", "3">>, title |-> None,
             summary |-> <<"a">>, categories |-> None]

\* A candidate list in which the malformed record comes before a well-formed one
MalformedLists == {<<PaperBad, Paper2>>}

RECURSIVE SeqsUpTo(_, _)
SeqsUpTo(S, n) ==
    IF n = 0 THEN {<<>>}
    ELSE LET shorter == SeqsUpTo(S, n - 1)
         IN  shorter \cup {Append(s, x) : s \in shorter, x \in S}

CandidateLists == SeqsUpTo(Results, MaxLen) \cup MalformedLists

\* send_slack puts at most this many papers in its message: papers[:10]
SlackLimit == 10

\* One record more than a Slack message takes, all distinct and well-formed
BulkPapers ==
    [k \in 1..(SlackLimit + 1) |->
        [entry_id |-> <<"abs", "/", ToString(10 + k)>>, title |-> <<"A", "b">>,
         summary |-> <<"b", "a">>, categories |-> <<"cs.AI">>]]

\* What the search returns on a day with more new papers than SlackLimit
BulkLists == {<<>>, BulkPapers}

\* A value of a keyword option: the key is absent, null, or a list of strings
Absent == [tag |-> "absent", list |-> <<>>]
Null == [tag |-> "null", list |-> <<>>]
List(l) == [tag |-> "list", list |-> l]

\* The 'filter' section: absent, null, or a mapping with the two options
Section(tag, tk, ak) ==
    [tag |-> tag, title_keywords |-> tk, abstract_keywords |-> ak]

FilterSections ==
    { Section("absent", Absent, Absent),
      Section("null", Absent, Absent),
      Section("dict", Absent, Absent),
      Section("dict", Null, List(<<>>)),
      Section("dict", List(<< <<"a">> >>), Absent),
      Section("dict", List(<< <<"b", "a">>, <<"b", "b">> >>), List(<< <<"A">> >>)),
      Section("dict", Absent, List(<< <<"a", "b">>, <<"a", "b", "a">> >>)) }

notification_methods == <<"email", "slack", "webhook">>
Channels == {"email", "slack", "webhook"}

\* notifications.retry.max_attempts: absent (-1 stands for the missing key) or set
RetryOptions == {-1} \cup 0..MaxAttempts

\* filter_papers reads only the filter section and send_notifications only the
\* notifications section, so each is varied against a fixed value of the other
Configs ==
    [filter : FilterSections, enabled : {{}}, max_attempts : {-1}]
    \cup [filter : {Section("absent", Absent, Absent)}, enabled : SUBSET Channels,
          max_attempts : RetryOptions]

(* ------------------------------------------------------------- the state *)
VARIABLES
    config,          \* self.config, as loaded from the configuration file
    ledger,          \* rows of the sent_papers table
    conn,            \* self.conn: "none", "open" or "closed"
    pc,              \* position of the process in __init__, run or send_notifications
    runs,            \* number of calls of run so far
    papers,          \* run's local `papers`
    filtered_papers, \* run's local `filtered_papers`
    sn_papers,       \* the `papers` argument of send_notifications
    method,          \* index into notification_methods in send_notifications
    attempt,         \* the `attempt` loop variable of send_notifications
    outcomes,        \* per channel: how each call of method_func ended, in order
    i,               \* position of the commit loop in filtered_papers
    carried,         \* per channel: the papers in the message it delivered last
    feed,            \* environment: what the arXiv search has to return, "usual" or "bulk"
    offered,         \* history: identifiers passed to send_notifications in ended runs
    kept             \* history: identifiers filtered by runs that completed normally

vars == <<config, ledger, conn, pc, runs, papers, filtered_papers, sn_papers,
          method, attempt, outcomes, carried, i, feed, offered, kept>>

Range(s) == {s[k] : k \in 1..Len(s)}

Ids(ps) == {PaperId(ps[k].entry_id) : k \in 1..Len(ps)}

LedgerIds(db) == {r.paper_id : r \in db}

(* ----------------------------------------------------------- the ledger *)
\* faulty variant: the snapshot is taken from an empty result set
GetSentPapersNone(db) == {}

\* _get_sent_papers: SELECT paper_id FROM sent_papers
GetSentPapers(db) == {r.paper_id : r \in db}

\* faulty variant: INSERT OR REPLACE
MarkAsSentReplace(db, paper_id, title, categories, sent_date) ==
    {r \in db : r.paper_id # paper_id}
        \cup {[paper_id |-> paper_id, title |-> title,
               sent_date |-> sent_date, categories |-> Join(categories)]}

\* faulty variant: the insert is never committed, and is lost when the connection closes
MarkAsSentLost(db, paper_id, title, categories, sent_date) == db

\* _mark_as_sent: INSERT OR IGNORE on the primary key paper_id, then commit
MarkAsSent(db, paper_id, title, categories, sent_date) ==
    IF \E r \in db : r.paper_id = paper_id
    THEN db
    ELSE db \cup {[paper_id |-> paper_id, title |-> title,
                   sent_date |-> sent_date, categories |-> Join(categories)]}

(* ----------------------------------------------------------- the filter *)
\* the truth value Python gives to filter_config.get(key, [])
Truthy(v) == v.tag = "list" /\ v.list # <<>>

\* faulty variant: the text is not lowered
AnyKeywordCased(keywords, text) ==
    \E k \in 1..Len(keywords) : Contains(text, LowerStr(keywords[k]))

\* any(kw.lower() in text.lower() for kw in keywords)
AnyKeyword(keywords, text) ==
    \E k \in 1..Len(keywords) : Contains(LowerStr(text), LowerStr(keywords[k]))

\* the body of the loop of filter_papers for one paper: TRUE when it is appended
Keeps(paper, sent_papers, title_keywords, abstract_keywords) ==
    /\ PaperId(paper.entry_id) \notin sent_papers
    /\ Truthy(title_keywords) => AnyKeyword(title_keywords.list, paper.title)
    /\ Truthy(abstract_keywords) => AnyKeyword(abstract_keywords.list, paper.summary)

\* faulty variant: kept papers are inserted at the front of the list
RECURSIVE FilterLoopFront(_, _, _, _, _, _)
FilterLoopFront(ps, k, filtered, sent_papers, title_keywords, abstract_keywords) ==
    IF k > Len(ps) THEN filtered
    ELSE FilterLoopFront(ps, k + 1,
                    IF Keeps(ps[k], sent_papers, title_keywords, abstract_keywords)
                    THEN <<ps[k]>> \o filtered ELSE filtered,
                    sent_papers, title_keywords, abstract_keywords)

\* faulty variant: a paper whose identifier was already kept is skipped
RECURSIVE FilterLoopOnce(_, _, _, _, _, _)
FilterLoopOnce(ps, k, filtered, sent_papers, title_keywords, abstract_keywords) ==
    IF k > Len(ps) THEN filtered
    ELSE FilterLoopOnce(ps, k + 1,
                    IF /\ Keeps(ps[k], sent_papers, title_keywords, abstract_keywords)
                       /\ PaperId(ps[k].entry_id) \notin Ids(filtered)
                    THEN Append(filtered, ps[k]) ELSE filtered,
                    sent_papers, title_keywords, abstract_keywords)

\* the loop of filter_papers
RECURSIVE FilterLoop(_, _, _, _, _, _)
FilterLoop(ps, k, filtered, sent_papers, title_keywords, abstract_keywords) ==
    IF k > Len(ps) THEN filtered
    ELSE FilterLoop(ps, k + 1,
                    IF Keeps(ps[k], sent_papers, title_keywords, abstract_keywords)
                    THEN Append(filtered, ps[k]) ELSE filtered,
                    sent_papers, title_keywords, abstract_keywords)

\* filter_papers, for a filter section that is absent or a mapping
FilterPapers(ps, db, section) ==
    FilterLoop(ps, 1, <<>>, GetSentPapers(db),
               section.title_keywords, section.abstract_keywords)

\* the body of the loop of filter_papers raises for this paper: lower() is
\* called on a title (line 149) or a summary (line 153) that is None
KeepRaises(paper, sent_papers, title_keywords, abstract_keywords) ==
    /\ PaperId(paper.entry_id) \notin sent_papers
    /\ \/ Truthy(title_keywords) /\ paper.title = None
       \/ /\ Truthy(title_keywords) => AnyKeyword(title_keywords.list, paper.title)
          /\ Truthy(abstract_keywords)
          /\ paper.summary = None

\* filter_papers raises on one of the papers
LoopRaises ==
    \E k \in 1..Len(papers) :
        KeepRaises(papers[k], GetSentPapers(ledger),
                   config.filter.title_keywords, config.filter.abstract_keywords)

\* faulty variant: the snapshot is read without the connection being open
FilterRaisesOnConfigOnly == config.filter.tag = "null" \/ LoopRaises

\* filter_papers raises: the connection is closed (line 133), the filter
\* section is null, so that filter_config.get is called on None (line 137),
\* or a paper makes the loop raise
FilterRaises == conn # "open" \/ config.filter.tag = "null" \/ LoopRaises

(* ----------------------------------------------------------- dispatching *)
\* retry_config.get('max_attempts', 3)
max_retries ==
    IF config.max_attempts = -1 THEN DefaultMaxAttempts ELSE config.max_attempts

\* <channel>_config.get('enabled', False)
Enabled(ch) == ch \in config.enabled

NoOutcomes == [ch \in Channels |-> <<>>]

NoCarried == [ch \in Channels |-> <<>>]

\* faulty variant: every channel takes the whole list
PayloadAll(ch, ps) == ps

\* the papers a channel puts in its message: send_slack the first SlackLimit
\* (line 228), send_email (line 193) and send_webhook (line 279) all of them
Payload(ch, ps) ==
    IF ch = "slack" /\ Len(ps) > SlackLimit THEN SubSeq(ps, 1, SlackLimit) ELSE ps

\* the channel's network call is given a timeout: requests.post(..., timeout=10)
\* in send_slack and send_webhook, none for smtplib.SMTP in send_email
HasTimeout(ch) == ch \in {"slack", "webhook"}

\* the channel can build its message from the records: format_paper_summary,
\* used by send_email, joins paper.categories (line 171)
Renders(ch, ps) ==
    ch = "email" => \A k \in 1..Len(ps) : ps[k].categories # None

\* faulty variant: one attempt too many
RetriesOneMore(a) == a < max_retries

\* the except clause of send_notifications: another attempt follows (line 317)
Retries(a) == a < max_retries - 1

(* -------------------------------------------------------------- actions *)
\* the lists fetch_papers can return
SearchResults == IF feed = "bulk" THEN BulkLists ELSE CandidateLists

Start(day) ==
    /\ config \in Configs
    /\ feed = day
    /\ ledger = {}
    /\ conn = "none"
    /\ pc = "none"
    /\ runs = 0
    /\ papers = <<>>
    /\ filtered_papers = <<>>
    /\ sn_papers = <<>>
    /\ method = 1
    /\ attempt = 0
    /\ outcomes = NoOutcomes
    /\ carried = NoCarried
    /\ i = 1
    /\ offered = {}
    /\ kept = {}

Init == Start("usual")

\* a day on which the search returns more papers than one Slack message takes
InitBulk == Start("bulk")

\* faulty variant: the connection is not closed
LeaveOpen(how, sent, normal) ==
    /\ pc' = how
    /\ conn' = conn
    /\ offered' = IF sent THEN offered \cup Ids(filtered_papers) ELSE offered
    /\ kept' = IF normal THEN kept \cup Ids(filtered_papers) ELSE kept
    /\ papers' = <<>>
    /\ filtered_papers' = <<>>
    /\ sn_papers' = <<>>
    /\ method' = 1
    /\ attempt' = 0
    /\ outcomes' = NoOutcomes
    /\ carried' = NoCarried
    /\ i' = 1

\* run leaves through `finally: self.conn.close()`, returning or raising; its
\* locals are gone
Leave(how, sent, normal) ==
    /\ pc' = how
    /\ conn' = "closed"
    /\ offered' = IF sent THEN offered \cup Ids(filtered_papers) ELSE offered
    /\ kept' = IF normal THEN kept \cup Ids(filtered_papers) ELSE kept
    /\ papers' = <<>>
    /\ filtered_papers' = <<>>
    /\ sn_papers' = <<>>
    /\ method' = 1
    /\ attempt' = 0
    /\ outcomes' = NoOutcomes
    /\ carried' = NoCarried
    /\ i' = 1

\* __init__: a new process constructs the bot and opens the database
Construct ==
    /\ pc \in {"none", "sent", "returned", "raised"}
    /\ runs < MaxRuns
    /\ pc' = "ready"
    /\ conn' = "open"
    /\ papers' = <<>>
    /\ filtered_papers' = <<>>
    /\ sn_papers' = <<>>
    /\ method' = 1
    /\ attempt' = 0
    /\ outcomes' = NoOutcomes
    /\ carried' = NoCarried
    /\ i' = 1
    /\ UNCHANGED <<config, feed, ledger, runs, offered, kept>>

\* faulty variant: no early return on an empty list
SendNotificationsAlways(loop, back) ==
    /\ method' = 1
    /\ attempt' = 0
    /\ outcomes' = NoOutcomes
    /\ carried' = NoCarried
    /\ pc' = IF max_retries <= 0 THEN back ELSE loop

\* send_notifications up to its loop (lines 298-309), called with sn_papers':
\* `loop` is the position inside the loop, `back` the one it returns to
SendNotifications(loop, back) ==
    /\ method' = 1
    /\ attempt' = 0
    /\ outcomes' = NoOutcomes
    /\ carried' = NoCarried
    /\ pc' = IF sn_papers' = <<>> \/ max_retries <= 0 THEN back ELSE loop

\* send_notifications called on the constructed bot, outside run; the call
\* changes nothing of the bot, and the process ends after it
SendDirect ==
    /\ pc = "ready"
    /\ sn_papers' \in SearchResults
    /\ SendNotifications("send", "sent")
    /\ UNCHANGED <<config, feed, ledger, conn, runs, papers, filtered_papers, i,
                   offered, kept>>

\* run, up to and including fetch_papers (lines 324-328); fetch_papers can raise
Fetch ==
    /\ pc \in {"ready", "returned", "raised"}
    /\ runs < MaxRuns
    /\ runs' = runs + 1
    /\ UNCHANGED <<config, feed, ledger>>
    /\ \/ /\ papers' \in SearchResults
          /\ pc' = "fetched"
          /\ filtered_papers' = <<>>
          /\ sn_papers' = <<>>
          /\ method' = 1
          /\ attempt' = 0
          /\ outcomes' = NoOutcomes
          /\ carried' = NoCarried
          /\ i' = 1
          /\ UNCHANGED <<conn, offered, kept>>
       \/ Leave("raised", FALSE, FALSE)

\* run: filter_papers (line 331)
Filter ==
    /\ pc = "fetched"
    /\ UNCHANGED <<config, feed, ledger, runs>>
    /\ IF FilterRaises
       THEN Leave("raised", FALSE, FALSE)
       ELSE /\ filtered_papers' = FilterPapers(papers, ledger, config.filter)
            /\ pc' = "filtered"
            /\ UNCHANGED <<conn, offered, kept, papers, sn_papers, method,
                           attempt, outcomes, carried, i>>

\* run: the early return (lines 333-335), else the call of send_notifications
\* (line 338)
Notify ==
    /\ pc = "filtered"
    /\ UNCHANGED <<config, feed, ledger, runs>>
    /\ IF filtered_papers = <<>>
       THEN Leave("returned", FALSE, TRUE)
       ELSE /\ sn_papers' = filtered_papers
            /\ SendNotifications("notify", "commit")
            /\ UNCHANGED <<conn, offered, kept, papers, filtered_papers, i>>

\* faulty variant: send_notifications returns after the first method it has dealt with
NextMethodReturns ==
    /\ attempt' = 0
    /\ method' = method
    /\ pc' = IF pc = "notify" THEN "commit" ELSE "sent"

\* send_notifications: the loop moves to the next method, or returns
NextMethod ==
    /\ attempt' = 0
    /\ IF method < Len(notification_methods)
       THEN method' = method + 1 /\ pc' = pc
       ELSE method' = method /\ pc' = IF pc = "notify" THEN "commit" ELSE "sent"

\* faulty variant: an exhausted channel ends send_notifications
ExhaustedEnds ==
    /\ attempt' = 0
    /\ method' = method
    /\ pc' = IF pc = "notify" THEN "commit" ELSE "sent"

\* send_notifications: method_func raised on the last attempt (line 320)
Exhausted == NextMethod

\* send_notifications: one iteration of the inner loop (lines 312-320)
Attempt ==
    /\ pc \in {"notify", "send"}
    /\ LET ch == notification_methods[method] IN
       \/ \* the channel is disabled: method_func returns at once
          /\ ~Enabled(ch)
          /\ outcomes' = [outcomes EXCEPT ![ch] = Append(@, "off")]
          /\ UNCHANGED carried
          /\ NextMethod
       \/ \* delivered
          /\ Enabled(ch)
          /\ Renders(ch, sn_papers)
          /\ outcomes' = [outcomes EXCEPT ![ch] = Append(@, "ok")]
          /\ carried' = [carried EXCEPT ![ch] = Payload(ch, sn_papers)]
          /\ NextMethod
       \/ \* the endpoint hangs and the call has no timeout: it never returns
          /\ Enabled(ch)
          /\ Renders(ch, sn_papers)
          /\ ~HasTimeout(ch)
          /\ outcomes' = [outcomes EXCEPT ![ch] = Append(@, "hung")]
          /\ UNCHANGED carried
          /\ pc' = "blocked"
          /\ UNCHANGED <<method, attempt>>
       \/ \* method_func raises (a timeout included)
          /\ Enabled(ch)
          /\ outcomes' = [outcomes EXCEPT ![ch] = Append(@, "raised")]
          /\ UNCHANGED carried
          /\ IF Retries(attempt)
             THEN attempt' = attempt + 1 /\ UNCHANGED <<method, pc>>
             ELSE Exhausted
    /\ UNCHANGED <<config, feed, ledger, conn, runs, papers, filtered_papers,
                   sn_papers, i, offered, kept>>

\* run: one iteration of the commit loop (lines 341-343); the insert can raise,
\* and ','.join raises on a category list that is None
Mark ==
    /\ pc = "commit"
    /\ i <= Len(filtered_papers)
    /\ UNCHANGED <<config, feed, runs>>
    /\ LET paper == filtered_papers[i] IN
       \/ /\ paper.categories # None
          /\ ledger' = MarkAsSent(ledger, PaperId(paper.entry_id), paper.title,
                                  paper.categories, runs)
          /\ i' = i + 1
          /\ UNCHANGED <<pc, conn, offered, kept, papers, filtered_papers,
                         sn_papers, method, attempt, outcomes, carried>>
       \/ /\ UNCHANGED ledger
          /\ Leave("raised", TRUE, FALSE)

\* run: the commit loop is over (lines 345, 351)
Finish ==
    /\ pc = "commit"
    /\ i > Len(filtered_papers)
    /\ UNCHANGED <<config, feed, ledger, runs>>
    /\ Leave("returned", TRUE, TRUE)

Next ==
    \/ Construct
    \/ SendDirect
    \/ Fetch
    \/ Filter
    \/ Notify
    \/ Attempt
    \/ Mark
    \/ Finish

Spec == Init /\ [][Next]_vars

\* the same program on a day with more than SlackLimit new papers
SpecBulk == InitBulk /\ [][Next]_vars

(* ================================================================ claims *)
PaperIdOf(p) == PaperId(p.entry_id)

\* a keyword option that is configured: a list with at least one keyword
Configured(v) == v.tag = "list" /\ Len(v.list) >= 1

AllRaised(o) == \A k \in 1..Len(o) : o[k] = "raised"

\* ---------------------------------------------------------------- C1
\* C1: the filtered set of a run holds no identifier that was in the filtered
\* set of an earlier run that completed normally, and only identifiers of the
\* run's candidates; so the same candidates filter to nothing the second time
\* and old candidates plus a new one filter to the new one only.
C1_NoRefilter ==
    pc \in {"filtered", "notify", "commit"} =>
        /\ Ids(filtered_papers) \cap kept = {}
        /\ Ids(filtered_papers) \subseteq Ids(papers)

\* a later run sees an old candidate and a new one, and keeps the new one only
C1_Witness ==
    /\ pc = "filtered"
    /\ Len(papers) = 2
    /\ PaperIdOf(papers[1]) \in kept
    /\ filtered_papers = <<papers[2]>>

\* ---------------------------------------------------------------- C2
\* C2: an identifier passed to send_notifications in one run is never passed
\* to send_notifications in a later run, also when runs abort with an exception.
C2_NeverOfferedTwice ==
    pc \in {"notify", "commit"} => Ids(sn_papers) \cap offered = {}

\* ---------------------------------------------------------------- C3
\* C3: the ledger holds at most one row per identifier, and no step removes a
\* row or changes its title, sent_date or categories; marking an identifier
\* that is already there changes nothing.
C3_LedgerAppendOnly ==
    [][/\ \A r1, r2 \in ledger' : r1.paper_id = r2.paper_id => r1 = r2
       /\ ledger \subseteq ledger']_vars

\* the commit loop has just marked a paper whose identifier the ledger already
\* held under another title
C3_Witness ==
    /\ pc = "commit"
    /\ i > 1
    /\ \E r \in ledger :
          /\ r.paper_id = PaperIdOf(filtered_papers[i - 1])
          /\ r.title # filtered_papers[i - 1].title

\* ---------------------------------------------------------------- C4
\* C4: with no title keywords and no abstract keywords configured,
\* filter_papers returns exactly the candidates whose identifier is not in the
\* ledger, in the order of the candidate list.
C4_FilterNoKeywords ==
    (/\ pc = "filtered"
     /\ ~Configured(config.filter.title_keywords)
     /\ ~Configured(config.filter.abstract_keywords)) =>
        filtered_papers =
            SelectSeq(papers, LAMBDA p : PaperIdOf(p) \notin LedgerIds(ledger))

\* no keywords, a known first candidate is dropped, an unknown second one kept
C4_Witness ==
    /\ pc = "filtered"
    /\ ~Configured(config.filter.title_keywords)
    /\ ~Configured(config.filter.abstract_keywords)
    /\ Len(papers) = 2
    /\ PaperIdOf(papers[1]) \in LedgerIds(ledger)
    /\ PaperIdOf(papers[2]) \notin LedgerIds(ledger)
    /\ Len(filtered_papers) = 1

\* ---------------------------------------------------------------- C5
\* two characters that are the same letter, whatever their case
SameLetter(c, d) == c = d \/ {c, d} \in {{"a", "A"}, {"b", "B"}}

\* kw occurs in text as a contiguous run, case ignored
OccursIgnoringCase(kw, text) ==
    \E from \in 1..(Len(text) + 1) :
        /\ from + Len(kw) - 1 <= Len(text)
        /\ \A j \in 1..Len(kw) : SameLetter(kw[j], text[from + j - 1])

PassesKeywords(p) ==
    /\ \/ ~Configured(config.filter.title_keywords)
       \/ \E kw \in Range(config.filter.title_keywords.list) :
              OccursIgnoringCase(kw, p.title)
    /\ \/ ~Configured(config.filter.abstract_keywords)
       \/ \E kw \in Range(config.filter.abstract_keywords.list) :
              OccursIgnoringCase(kw, p.summary)

\* C5: a candidate whose identifier is not in the ledger is kept if and only if
\* (no title keywords are configured or one of them occurs in its title, case
\* ignored) and (no abstract keywords are configured or one of them occurs in
\* its abstract, case ignored).
C5_KeywordRule ==
    pc = "filtered" =>
        filtered_papers =
            SelectSeq(papers, LAMBDA p : /\ PaperIdOf(p) \notin LedgerIds(ledger)
                                         /\ PassesKeywords(p))

\* a title keyword keeps a paper that matches it only when case is ignored,
\* and rejects the other candidate
C5_Witness ==
    /\ pc = "filtered"
    /\ ledger = {}
    /\ Configured(config.filter.title_keywords)
    /\ Len(papers) = 2
    /\ Len(filtered_papers) = 1
    /\ \A kw \in Range(config.filter.title_keywords.list) :
          ~Contains(filtered_papers[1].title, kw)

\* ---------------------------------------------------------------- C6
Index(ch) == CHOOSE k \in 1..Len(notification_methods) : notification_methods[k] = ch

\* send_notifications, called with a non-empty list, is done with channel ch
Past(ch) ==
    /\ sn_papers # <<>>
    /\ \/ pc \in {"notify", "send"} /\ method > Index(ch)
       \/ pc \in {"commit", "sent"}

\* C6: an enabled channel is never called again after a call that succeeded,
\* so one that first succeeds on attempt k is called k times; one that always
\* fails is called max_attempts times; whatever the other channels do.
C6_RetryCounts ==
    \A ch \in Channels :
        Enabled(ch) =>
            LET o == outcomes[ch] IN
            /\ \A k \in 1..(Len(o) - 1) : o[k] = "raised"
            /\ Past(ch) =>
                  \/ o # <<>> /\ o[Len(o)] = "ok"
                  \/ AllRaised(o) /\ Len(o) = max_retries

\* email failed on each of three attempts, slack succeeded at once
C6_Witness ==
    /\ pc = "commit"
    /\ {"email", "slack"} \subseteq config.enabled
    /\ max_retries = DefaultMaxAttempts
    /\ outcomes["email"] = <<"raised", "raised", "raised">>
    /\ outcomes["slack"] = <<"ok">>

\* ---------------------------------------------------------------- C7
\* C7: no step of send_notifications raises: from inside its loop the process
\* stays in the loop or returns (run goes on to the commit step), unless a call
\* never returns at all, and when it returns every channel of the list has
\* been called.
C7_ChannelFailuresContained ==
    [][(pc \in {"notify", "send"}) =>
          ((pc = "notify" => pc' \in {"notify", "commit", "blocked"})
           /\ (pc = "send" => pc' \in {"send", "sent", "blocked"})
           /\ (pc' \in {"commit", "sent"} =>
                  (\A ch \in Channels : Len(outcomes'[ch]) > 0)))]_vars

\* every channel is enabled and raised on every attempt, and run is committing
C7_Witness ==
    /\ pc = "commit"
    /\ config.enabled = Channels
    /\ \A ch \in Channels : outcomes[ch] # <<>> /\ AllRaised(outcomes[ch])

\* ---------------------------------------------------------------- C8
\* C8: when run completes normally with a non-empty filtered set, every
\* identifier of the filtered set is in the ledger afterwards, whatever the
\* channels did.
C8_CommitRegardless ==
    [][(pc' = "returned" /\ filtered_papers # <<>>) =>
          (Ids(filtered_papers) \subseteq LedgerIds(ledger'))]_vars

\* run is about to return, every enabled channel having failed all its attempts
C8_Witness ==
    /\ pc = "commit"
    /\ i > Len(filtered_papers)
    /\ config.enabled = Channels
    /\ \A ch \in Channels :
          AllRaised(outcomes[ch]) /\ Len(outcomes[ch]) = max_retries
    /\ max_retries > 0
    /\ Ids(filtered_papers) \subseteq LedgerIds(ledger)

\* ---------------------------------------------------------------- C9
\* channel ch has succeeded (or returned at once, being disabled) or has used
\* up all its attempts
Concluded(ch) ==
    LET o == outcomes[ch] IN
    \/ o # <<>> /\ o[Len(o)] \in {"ok", "off"}
    \/ AllRaised(o) /\ Len(o) = max_retries

\* C9: a step that writes the ledger is a step of the commit loop, taken when
\* every channel has concluded; fetch, filter and dispatch leave the ledger alone.
C9_CommitAfterDispatch ==
    [][(ledger' # ledger) =>
          (pc = "commit" /\ (\A ch \in Channels : Concluded(ch)))]_vars

\* a row was written in this run after three channels each took three attempts
C9_Witness ==
    /\ pc = "commit"
    /\ i > 1
    /\ \E r \in ledger : r.sent_date = runs
    /\ config.enabled = Channels
    /\ \A ch \in Channels : Len(outcomes[ch]) = DefaultMaxAttempts

\* ---------------------------------------------------------------- C10
\* C10: send_notifications called with an empty list returns at once with no
\* channel called; and a run whose filtered set is empty returns with no
\* channel called and the ledger as it was.
C10_EmptyIsNoOp ==
    [][/\ (pc = "ready" /\ pc' \in {"send", "sent"} /\ sn_papers' = <<>>) =>
             (pc' = "sent" /\ outcomes' = NoOutcomes /\ ledger' = ledger)
       /\ (pc = "filtered" /\ filtered_papers = <<>>) =>
             (pc' = "returned" /\ outcomes' = NoOutcomes /\ ledger' = ledger)]_vars

\* send_notifications has returned from a call with an empty list, with every
\* channel enabled and attempts configured
C10_Witness ==
    /\ pc = "sent"
    /\ sn_papers = <<>>
    /\ config.enabled = Channels
    /\ max_retries > 0
    /\ outcomes = NoOutcomes

\* ---------------------------------------------------------------- C12
\* C12: whenever run has ended, by returning (normally or early on an empty
\* filtered set) or by raising (the exception propagates), the connection is
\* closed.
C12_ClosedOnExit ==
    pc \in {"returned", "raised"} => conn = "closed"

\* the first run raised in its commit loop, and the connection is closed
C12_Witness ==
    /\ pc = "raised"
    /\ runs = 1
    /\ offered # {}
    /\ conn = "closed"

\* ---------------------------------------------------------------- C15
\* C15: when send_notifications returns from a call with a non-empty list,
\* every enabled channel has been attempted, retried only after failures, and
\* is in one terminal state: its last attempt succeeded, or it failed exactly
\* max_attempts times.
C15_ChannelLifecycle ==
    (pc \in {"commit", "sent"} /\ sn_papers # <<>>) =>
        \A ch \in Channels :
            Enabled(ch) =>
                LET o == outcomes[ch] IN
                /\ o # <<>>
                /\ \A k \in 1..(Len(o) - 1) : o[k] = "raised"
                /\ \/ o[Len(o)] = "ok"
                   \/ AllRaised(o) /\ Len(o) = max_retries

\* ---------------------------------------------------------------- C16
\* C16: with the filter section missing, or it or its keyword lists null or
\* empty, filter_papers does not raise: it returns the candidates that are not
\* in the ledger and leaves the ledger unchanged.
C16_KeywordConfigNeverRaises ==
    [][(/\ pc = "fetched"
        /\ conn = "open"
        /\ ~Configured(config.filter.title_keywords)
        /\ ~Configured(config.filter.abstract_keywords)) =>
          (/\ pc' = "filtered"
           /\ ledger' = ledger
           /\ filtered_papers' =
                 SelectSeq(papers, LAMBDA p : PaperIdOf(p) \notin LedgerIds(ledger)))]_vars

\* ---------------------------------------------------------------- C17
\* the step in which the commit loop aborts at position i
Aborting == pc = "commit" /\ pc' = "raised"

Before(k) == SubSeq(filtered_papers, 1, k - 1)
FromOn(k) == SubSeq(filtered_papers, k, Len(filtered_papers))

\* C17 as stated: when the commit loop aborts at position i, the ledger holds,
\* of the filtered identifiers, exactly those of the first i-1 records, and a
\* next run over the same candidates filters exactly the records from
\* position i onward.
C17_AbortedCommit ==
    [][Aborting =>
          (/\ LedgerIds(ledger') \cap Ids(filtered_papers) = Ids(Before(i))
           /\ FilterPapers(papers, ledger', config.filter) = FromOn(i))]_vars

\* C17 as amended: ... and a next run over the same candidates filters exactly
\* the records from position i onward whose identifier is not that of one of
\* the first i-1 records.
C17_AbortedCommitAmended ==
    [][Aborting =>
          (/\ LedgerIds(ledger') \cap Ids(filtered_papers) = Ids(Before(i))
           /\ FilterPapers(papers, ledger', config.filter) =
                 SelectSeq(FromOn(i),
                           LAMBDA p : PaperIdOf(p) \notin Ids(Before(i))))]_vars

\* the first run aborted in its commit loop after at least one insert, leaving
\* an offered identifier out of the ledger
C17_Witness ==
    /\ pc = "raised"
    /\ runs = 1
    /\ ledger # {}
    /\ ~(offered \subseteq LedgerIds(ledger))

\* ---------------------------------------------------------------- C18
Occurrences(ps, id) == Cardinality({k \in 1..Len(ps) : PaperIdOf(ps[k]) = id})

FirstWith(ps, id) ==
    ps[CHOOSE k \in 1..Len(ps) :
          /\ PaperIdOf(ps[k]) = id
          /\ \A j \in 1..(k - 1) : PaperIdOf(ps[j]) # id]

\* C18: filter_papers keeps every occurrence of an identifier that is not in
\* the ledger, the list passed to send_notifications is the filtered list with
\* its repetitions, and when the commit loop is over the ledger holds one row
\* for the identifier, with the title of its first occurrence.
C18_DuplicatesKept ==
    /\ pc = "filtered" =>
          \A k \in 1..Len(papers) :
              (/\ PaperIdOf(papers[k]) \notin LedgerIds(ledger)
               /\ PassesKeywords(papers[k])) =>
                  Occurrences(filtered_papers, PaperIdOf(papers[k])) =
                      Cardinality({j \in 1..Len(papers) :
                                      /\ PaperIdOf(papers[j]) = PaperIdOf(papers[k])
                                      /\ PassesKeywords(papers[j])})
    /\ pc \in {"notify", "commit"} => sn_papers = filtered_papers
    /\ (pc = "commit" /\ i > Len(filtered_papers)) =>
          \A id \in Ids(filtered_papers) :
              /\ Cardinality({r \in ledger : r.paper_id = id}) = 1
              /\ \A r \in ledger :
                    r.paper_id = id => r.title = FirstWith(filtered_papers, id).title

\* two papers with one identifier and different titles were filtered, offered
\* and committed
C18_Witness ==
    /\ pc = "commit"
    /\ i > Len(filtered_papers)
    /\ Len(filtered_papers) = 2
    /\ sn_papers = filtered_papers
    /\ PaperIdOf(filtered_papers[1]) = PaperIdOf(filtered_papers[2])
    /\ filtered_papers[1].title # filtered_papers[2].title
    /\ \E r \in ledger : r.title = filtered_papers[1].title

\* ---------------------------------------------------------------- C19
\* C19: once closed, the connection of a bot is not reopened (only a new bot
\* has an open one), and a run on a bot whose connection is closed raises in
\* filter_papers, with no channel called and no ledger write.
C19_SingleRun ==
    [][/\ (conn = "closed" /\ pc' # "ready") =>
             (conn' = "closed" /\ pc' \in {"fetched", "returned", "raised"})
       /\ (conn = "closed" /\ pc = "fetched") =>
             (pc' = "raised" /\ ledger' = ledger /\ outcomes' = NoOutcomes)]_vars

\* run was called again on a bot whose first run committed a paper, and has
\* fetched candidates
C19_Witness ==
    /\ pc = "fetched"
    /\ conn = "closed"
    /\ runs = 2
    /\ ledger # {}
    /\ papers # <<>>

\* ---------------------------------------------------------------- C13
\* C13: a candidate with a missing field does not abort the run: filter_papers
\* does not raise on it, and the commit loop does not raise on its category list.
C13_MalformedRecordTolerated ==
    [][/\ (pc = "fetched" /\ conn = "open" /\ config.filter.tag # "null") =>
             pc' = "filtered"
       /\ (/\ pc = "commit"
           /\ i <= Len(filtered_papers)
           /\ filtered_papers[i].categories = None) => pc' # "raised"]_vars

\* ---------------------------------------------------------------- C14
\* C14: no channel call is left waiting without a bound on a hanging endpoint,
\* so send_notifications goes on to the remaining channels and run to the
\* commit step.
C14_CallsAreBounded == pc # "blocked"

\* ---------------------------------------------------------------- C11
\* C11: with more than SlackLimit filtered records, a delivered Slack message
\* carries the first SlackLimit of them in input order, a delivered email or
\* webhook message carries all of them, and when the commit loop is over the
\* identifier of every filtered record, those beyond the first SlackLimit
\* included, is in the ledger.
C11_SlackTruncation ==
    (pc \in {"notify", "commit"} /\ Len(filtered_papers) > SlackLimit) =>
        /\ \A ch \in Channels :
              (outcomes[ch] # <<>> /\ outcomes[ch][Len(outcomes[ch])] = "ok") =>
                  carried[ch] =
                      IF ch = "slack"
                      THEN [k \in 1..SlackLimit |-> filtered_papers[k]]
                      ELSE filtered_papers
        /\ (pc = "commit" /\ i > Len(filtered_papers)) =>
              \A k \in 1..Len(filtered_papers) :
                  PaperIdOf(filtered_papers[k]) \in LedgerIds(ledger)

C11_Witness ==
    /\ pc = "commit"
    /\ Len(filtered_papers) = SlackLimit + 1
    /\ i > Len(filtered_papers)
    /\ Len(carried["slack"]) = SlackLimit
    /\ Len(carried["email"]) = SlackLimit + 1
    /\ Len(carried["webhook"]) = SlackLimit + 1
    /\ PaperIdOf(filtered_papers[SlackLimit + 1]) \in LedgerIds(ledger)

====
